---- MODULE Spec2Model ----
(***************************************************************************)
(* Request dispatch pipeline of simba_sdk.core.requests.client.base.Client *)
(* : token lookup, header injection, the middleware chain around the       *)
(* transport, response classification and the client-credentials login.   *)
(*                                                                         *)
(* Python values are modelled as follows.                                  *)
(*   Optional[Dict]   [some |-> BOOLEAN, val |-> set of <<key, value>>]    *)
(*   Optional[str]    [some |-> BOOLEAN, val |-> STRING]                   *)
(*   str (urls)       sequence of one-character strings                    *)
(*   Response         [status_code |-> Int, text |-> STRING]               *)
(* A coroutine runs without interruption between two suspension points, so *)
(* each action below is the code between two awaits of one call.           *)
(***************************************************************************)
EXTENDS Integers, Sequences, FiniteSets, TLC

VARIABLES
    phase,        \* "new" before Client(...), "ready" after, "failed" if __init__ raised
    token_store,  \* Client.token_store and what the store holds
    middlewares,  \* the MiddlewareManager's ordered chain (names of the instances)
    tasks,        \* one record per caller task: the call it has in progress
    started,      \* number of calls issued so far
    construction, \* the middleware argument Client(...) was given and the error it raised
    scope,        \* `async with client:` -- where the caller is, and the transport's resources
    built,        \* a call of build_url on its own: base, path and the result
    authorised    \* the token the last authorise that returned got from the token endpoint

vars == <<phase, token_store, middlewares, tasks, started, construction, scope, built, authorised>>

(***************************************************************************)
(* Bounds                                                                  *)
(***************************************************************************)
MaxCalls == 3
MaxTasks == 2
\* longest path given to build_url on its own
MaxPathLen == 4

(***************************************************************************)
(* Configuration values (simba_sdk.config.settings, config.MIDDLEWARE)     *)
(***************************************************************************)
CLIENT_ID == "client-1"
CLIENT_SECRET == "s3cret"
OTHER_ID == "client-2"
Identifiers == {CLIENT_ID, OTHER_ID}

BaseUrl == <<"h", ":", "/", "/", "a">>
TOKEN_URL == <<"h", ":", "/", "/", "a", "/", "t">>

MIDDLEWARE == <<"A", "B", "C">>

(***************************************************************************)
(* Python values                                                           *)
(***************************************************************************)
NoneDict == [some |-> FALSE, val |-> {}]
Dict(d) == [some |-> TRUE, val |-> d]
NoneStr == [some |-> FALSE, val |-> ""]
Str(s) == [some |-> TRUE, val |-> s]
NoneList == [some |-> FALSE, val |-> <<>>]
List(l) == [some |-> TRUE, val |-> l]

\* `not d` for an Optional[Dict]: None and the empty dict are both falsy
Falsy(d) == ~d.some \/ d.val = {}
\* `if token:` for an Optional[str]: None and "" are both falsy
Truthy(s) == s.some /\ s.val # ""
\* `if x is None: x = {}`
OrEmpty(d) == IF d.some THEN d.val ELSE {}

Range(s) == {s[i] : i \in 1..Len(s)}

(***************************************************************************)
(* Responses and their bodies.  json is httpx's Response.json() on the     *)
(* body texts of the model: the parsed value, or "invalid" where the       *)
(* parser raises JSONDecodeError.                                          *)
(***************************************************************************)
B_DETAIL == "{\"detail\": \"Not found\"}"
B_DETAIL_NUM == "{\"detail\": 404}"
B_TOKEN1 == "{\"access_token\": \"tok123\", \"expires_at\": 1700000000}"
B_TOKEN2 == "{\"access_token\": \"tok456\", \"expires_at\": 1800000000}"
B_TOKEN_ONLY == "{\"access_token\": \"tok789\"}"
B_USER == "{\"email\": \"u@a\"}"
B_VERIFIED == "{\"verified\": 1}"
B_OBJECT == "{\"error\": \"no\"}"
B_ARRAY == "[\"detail\"]"
B_TEXT == "Bad Gateway"

Bodies == {B_DETAIL, B_DETAIL_NUM, B_TOKEN1, B_TOKEN2, B_TOKEN_ONLY, B_USER, B_VERIFIED, B_OBJECT, B_ARRAY, B_TEXT}
Statuses == {200, 201, 299, 300, 401}
Responses == [status_code : Statuses, text : Bodies]
NoResponse == [status_code |-> 0, text |-> ""]

JS(s) == [t |-> "str", s |-> s, n |-> 0]
JN(n) == [t |-> "num", s |-> "", n |-> n]

json(text) ==
    CASE text = B_DETAIL -> [kind |-> "object", value |-> [detail |-> JS("Not found")]]
      [] text = B_DETAIL_NUM -> [kind |-> "object", value |-> [detail |-> JN(404)]]
      [] text = B_TOKEN1 -> [kind |-> "object", value |-> [access_token |-> JS("tok123"), expires_at |-> JN(1700000000)]]
      [] text = B_TOKEN2 -> [kind |-> "object", value |-> [access_token |-> JS("tok456"), expires_at |-> JN(1800000000)]]
      [] text = B_TOKEN_ONLY -> [kind |-> "object", value |-> [access_token |-> JS("tok789")]]
      [] text = B_USER -> [kind |-> "object", value |-> [email |-> JS("u@a")]]
      [] text = B_VERIFIED -> [kind |-> "object", value |-> [verified |-> JN(1)]]
      [] text = B_OBJECT -> [kind |-> "object", value |-> [error |-> JS("no")]]
      [] text = B_ARRAY -> [kind |-> "array", value |-> <<JS("detail")>>]
      [] OTHER -> [kind |-> "invalid", value |-> <<>>]

\* resp.json()[key]: the value, or the exception the expression raises
getitem(text, key) ==
    LET j == json(text)
    IN IF j.kind = "invalid" THEN [ok |-> FALSE, exc |-> "JSONDecodeError", val |-> JS("")]
       ELSE IF j.kind # "object" THEN [ok |-> FALSE, exc |-> "TypeError", val |-> JS("")]
       ELSE IF key \notin DOMAIN j.value THEN [ok |-> FALSE, exc |-> "KeyError", val |-> JS("")]
       ELSE [ok |-> TRUE, exc |-> "", val |-> j.value[key]]

\* f"{v}" for a JSON scalar
py_str(v) == IF v.t = "str" THEN v.s ELSE ToString(v.n)

(***************************************************************************)
(* Outcome of a call: what it returned, or the exception it raised.        *)
(***************************************************************************)
NoResult == [kind |-> "none", exc |-> "", status_code |-> 0, message |-> "", value |-> NoResponse]
Return(v) == [kind |-> "return", exc |-> "", status_code |-> 0, message |-> "", value |-> v]
Raise(exc, msg) == [kind |-> "raise", exc |-> exc, status_code |-> 0, message |-> msg, value |-> NoResponse]
RequestException(status_code, message) == [kind |-> "raise", exc |-> "RequestException", status_code |-> status_code, message |-> message, value |-> NoResponse]

NoStoreMessage == "No token_path store registered to this client"
PostMessage == "Post requests must either send an upload_file or data."

(***************************************************************************)
(* TokenStore (simba_sdk.core.requests.auth.token_store.BaseTokenStore)    *)
(***************************************************************************)
Absent == [present |-> FALSE, token |-> "", expires |-> 0]
EmptyTokens == [i \in Identifiers |-> Absent]

get_token(store, identifier) == IF store.tokens[identifier].present THEN Str(store.tokens[identifier].token) ELSE NoneStr

\* variant: the token is stored under every identifier
set_token_everywhere(store, identifier, token, expires) == [store EXCEPT !.tokens = [i \in Identifiers |-> [present |-> TRUE, token |-> token, expires |-> expires]]]

set_token(store, identifier, token, expires) == [store EXCEPT !.tokens[identifier] = [present |-> TRUE, token |-> token, expires |-> expires]]

(***************************************************************************)
(* Client: the pure parts                                                  *)
(***************************************************************************)
\* url without the separators it starts with
RECURSIVE StripSeparators(_)
StripSeparators(url) == IF Len(url) > 0 /\ url[1] = "/" THEN StripSeparators(Tail(url)) ELSE url

\* variant: a separator is put in front of every path
build_url_always_prefixed(base, url) == base \o <<"/">> \o url

\* variant: the separators a path starts with are collapsed into one
build_url_collapsing(base, url) == base \o <<"/">> \o StripSeparators(url)

\* Client.build_url, lines 61-65
build_url(base, url) == IF Len(url) > 0 /\ url[1] = "/" THEN base \o url ELSE base \o <<"/">> \o url

\* variant: the token is looked up under another identifier than the one
\* authorise stores it under
Client_get_token_other_id(store) == IF store.registered THEN [raised |-> FALSE, token |-> get_token(store, OTHER_ID)] ELSE [raised |-> TRUE, token |-> NoneStr]

\* variant: a client without a store is treated as one without a token
Client_get_token_lenient(store) == IF store.registered THEN [raised |-> FALSE, token |-> get_token(store, CLIENT_ID)] ELSE [raised |-> FALSE, token |-> NoneStr]

Client_get_token(store) == IF store.registered THEN [raised |-> FALSE, token |-> get_token(store, CLIENT_ID)] ELSE [raised |-> TRUE, token |-> NoneStr]

\* variant: `is None` tests in place of truthiness
post_rejects_none_only(data, upload_file) == ~upload_file.some /\ ~data.some

\* Client.post, line 93: the request is refused
post_rejects(data, upload_file) == Falsy(upload_file) /\ Falsy(data)

\* variant: the token without its scheme
send_headers_no_scheme(token, headers) == IF Truthy(token) THEN {<<"Authorization", token.val>>} ELSE OrEmpty(headers)

\* variant: the Authorization header is added to the headers of the caller
send_headers_merged(token, headers) == IF Truthy(token) THEN OrEmpty(headers) \cup {<<"Authorization", "Bearer " \o token.val>>} ELSE OrEmpty(headers)

\* Client.send, lines 174-181: the headers map given to build_request
send_headers(token, headers) == IF Truthy(token) THEN {<<"Authorization", "Bearer " \o token.val>>} ELSE OrEmpty(headers)

\* Client.send, lines 183-191
send_request(method, base, url, data, upload_file, token, headers) == [method |-> method, url |-> build_url(base, url), data |-> OrEmpty(data), files |-> upload_file, headers |-> send_headers(token, headers)]

\* variant: the message is always built from the raw text
send_classify_raw_text(resp) ==
    IF resp.status_code >= 300
    THEN LET d == getitem(resp.text, "detail")
         IN IF d.ok \/ d.exc \in {"KeyError", "AttributeError"}
            THEN RequestException(resp.status_code, "Request was unsuccessful: " \o resp.text)
            ELSE Raise(d.exc, "")
    ELSE Return(resp)

\* Client.send, lines 195-204: the outcome for the response the chain produced
send_classify(resp) ==
    IF resp.status_code >= 300
    THEN LET d == getitem(resp.text, "detail")
             error == IF d.ok THEN py_str(d.val) ELSE resp.text
         IN IF d.ok \/ d.exc \in {"KeyError", "AttributeError"}
            THEN RequestException(resp.status_code, "Request was unsuccessful: " \o error)
            ELSE Raise(d.exc, "")
    ELSE Return(resp)

\* variant: the credentials go out in a GET without the secret
authorise_request_get(token_url, headers) == [method |-> "GET", url |-> token_url, data |-> {<<"grant_type", "client_credentials">>, <<"client_id", CLIENT_ID>>}, files |-> NoneDict, headers |-> OrEmpty(headers)]

\* Client.authorise, lines 212-221
authorise_request(token_url, headers) == [method |-> "POST", url |-> token_url, data |-> {<<"grant_type", "client_credentials">>, <<"client_id", CLIENT_ID>>, <<"client_secret", CLIENT_SECRET>>}, files |-> NoneDict, headers |-> OrEmpty(headers)]

\* variant: the token is stored as soon as it is read, the expiry after it
authorise_store_token_first(resp, store) ==
    IF ~store.registered
    THEN [result |-> Raise("LookupError", NoStoreMessage), store |-> store, writes |-> 0]
    ELSE LET tok == getitem(resp.text, "access_token")
             exp == getitem(resp.text, "expires_at")
         IN IF ~tok.ok THEN [result |-> Raise(tok.exc, ""), store |-> store, writes |-> 0]
            ELSE IF ~exp.ok THEN [result |-> Raise(exp.exc, ""), store |-> set_token(store, CLIENT_ID, tok.val.s, store.tokens[CLIENT_ID].expires), writes |-> 1]
            ELSE [result |-> Return(NoResponse), store |-> set_token(store, CLIENT_ID, tok.val.s, exp.val.n), writes |-> 1]

\* Client.authorise, lines 230-236: the store is looked for, the two fields
\* are read from the JSON body, then set_token is called
authorise_store(resp, store) ==
    IF ~store.registered
    THEN [result |-> Raise("LookupError", NoStoreMessage), store |-> store, writes |-> 0]
    ELSE LET tok == getitem(resp.text, "access_token")
             exp == getitem(resp.text, "expires_at")
         IN IF ~tok.ok THEN [result |-> Raise(tok.exc, ""), store |-> store, writes |-> 0]
            ELSE IF ~exp.ok THEN [result |-> Raise(exp.exc, ""), store |-> store, writes |-> 0]
            ELSE [result |-> Return(NoResponse), store |-> set_token(store, CLIENT_ID, tok.val.s, exp.val.n), writes |-> 1]

\* Client.authorise, lines 226-229
authorise_failure(resp, store) == [result |-> RequestException(resp.status_code, "Authorization failed: " \o resp.text), store |-> store, writes |-> 0]

\* variant: a token already stored is kept
authorise_finish_keep_existing(resp, store) ==
    IF resp.status_code # 200 THEN authorise_failure(resp, store)
    ELSE IF store.registered /\ store.tokens[CLIENT_ID].present THEN [result |-> Return(NoResponse), store |-> store, writes |-> 0]
    ELSE authorise_store(resp, store)

\* variant: every status below 300 is taken as a success
authorise_finish_any_2xx(resp, store) == IF resp.status_code >= 300 THEN authorise_failure(resp, store) ELSE authorise_store(resp, store)

\* variant: the store is looked for before the status
authorise_finish_store_first(resp, store) ==
    IF ~store.registered THEN [result |-> Raise("LookupError", NoStoreMessage), store |-> store, writes |-> 0]
    ELSE IF resp.status_code # 200 THEN authorise_failure(resp, store)
    ELSE authorise_store(resp, store)

\* Client.authorise, lines 225-236: the outcome and the store afterwards
authorise_finish(resp, store) == IF resp.status_code # 200 THEN authorise_failure(resp, store) ELSE authorise_store(resp, store)

(***************************************************************************)
(* Inputs of the calls                                                     *)
(***************************************************************************)
Methods == {"GET", "POST", "PUT", "PATCH", "DELETE"}
Paths == {<<"d">>, <<"/", "d">>}
DataInputs == {NoneDict, Dict({}), Dict({<<"k", "v">>})}
FileInputs == {NoneDict, Dict({<<"file", "f.txt">>})}
HeaderInputs == {NoneDict, Dict({<<"X-Trace", "1">>})}
MiddlewareInputs == {NoneList, List(<<>>), List(<<"B", "A">>), List(<<"A", "A">>), List(<<"A", "Z">>), List(<<"Z", "A">>), List(<<"C", "Z", "B">>)}

(***************************************************************************)
(* State                                                                   *)
(***************************************************************************)
NoRequest == [method |-> "", url |-> <<>>, data |-> {}, files |-> NoneDict, headers |-> {}]
NoArgs == [url |-> <<>>, data |-> NoneDict, upload_file |-> NoneDict, headers |-> NoneDict]
Args(url, data, upload_file, headers) == [url |-> url, data |-> data, upload_file |-> upload_file, headers |-> headers]

\* a task with no call in progress.  args are the arguments of the call and
\* request the request it built, both until the response arrives; before is
\* what the store held when authorise went on after the await (with a single
\* caller, what it held when authorise was called); raised_at is the number of
\* the stage that raised, answered_by who produced resp (a stage or the
\* transport); outcome is what a generated endpoint method made of result.
Idle == [pc |-> "idle", op |-> "none", sent |-> FALSE, args |-> NoArgs, before |-> EmptyTokens, request |-> NoRequest, stage |-> 0, inbound |-> <<>>, transport_calls |-> 0, store_reads |-> 0, store_writes |-> 0, raised_at |-> 0, answered_by |-> "none", resp |-> NoResponse, result |-> NoResult, outcome |-> NoResult]

Tasks == DOMAIN tasks

NotConstructed == [middleware |-> NoneList, instances |-> <<>>, error |-> ""]
\* the caller is not in an `async with` block and the transport holds no connection resources
Outside == [at |-> "outside", awaiting |-> "none", acquired |-> FALSE, body_raised |-> FALSE, propagated |-> FALSE]
NoUrl == [base |-> <<>>, path |-> <<>>, result |-> <<>>, applied |-> FALSE]

\* one caller task issuing its calls one after the other
Init ==
    /\ phase = "new"
    /\ token_store = [registered |-> FALSE, tokens |-> EmptyTokens]
    /\ middlewares = <<>>
    /\ tasks = [t \in {1} |-> Idle]
    /\ started = 0
    /\ construction = NotConstructed
    /\ scope = Outside
    /\ built = NoUrl
    /\ authorised = NoneStr

Reverse(s) == [i \in 1..Len(s) |-> s[Len(s) + 1 - i]]

\* Client.__init__, lines 40-42 (45-47): the factory of the name is called and
\* the instance is given the transport client of this Client
new_instance(name) == [name |-> name, client |-> "self._client"]

\* variant: the list of the caller is ignored
registered_names_default(middleware) == MIDDLEWARE

\* variant: the names are walked from the last to the first
registered_names_reversed(middleware) == IF middleware.some THEN Reverse(middleware.val) ELSE Reverse(MIDDLEWARE)

\* Client.__init__, lines 35-47: the names whose factories are looked up, in
\* order; the lookup of a name the registry lacks raises KeyError
registered_names(middleware) == IF middleware.some THEN middleware.val ELSE MIDDLEWARE

\* variant: a name the registry lacks is let through
known_prefix_lenient(names) == Len(names)

\* Client.__init__, lines 39-42: how many names are registered before the
\* lookup config.MIDDLEWARE[ware] of an unknown name raises
known_prefix(names) ==
    LET bad == {i \in 1..Len(names) : names[i] \notin Range(MIDDLEWARE)}
    IN IF bad = {} THEN Len(names) ELSE (CHOOSE i \in bad : \A j \in bad : i <= j) - 1

Construct(stores, lists) ==
    /\ phase = "new"
    /\ \E store \in stores, middleware \in lists :
         LET names == registered_names(middleware)
         IN /\ token_store' = [registered |-> store, tokens |-> EmptyTokens]
            /\ middlewares' = SubSeq(names, 1, known_prefix(names))
            /\ phase' = IF known_prefix(names) = Len(names) THEN "ready" ELSE "failed"
            /\ construction' = [middleware |-> middleware,
                                 instances |-> [i \in 1..known_prefix(names) |-> new_instance(names[i])],
                                 error |-> IF known_prefix(names) = Len(names) THEN "" ELSE "KeyError"]
    /\ UNCHANGED <<tasks, started, scope, built, authorised>>

CanStart(t) == phase = "ready" /\ tasks[t].pc = "idle" /\ started < MaxCalls

\* Client.send, lines 170-194, up to the await of middleware_manager.send
send(t, op, method, url, data, upload_file, headers) ==
    LET tok == Client_get_token(token_store)
    IN tasks' = [tasks EXCEPT ![t] =
          IF tok.raised
          THEN [Idle EXCEPT !.pc = "done", !.op = op, !.sent = TRUE, !.args = Args(url, data, upload_file, headers),
                            !.result = Raise("LookupError", NoStoreMessage)]
          ELSE [Idle EXCEPT !.pc = "chain", !.op = op, !.sent = TRUE, !.args = Args(url, data, upload_file, headers), !.store_reads = 1,
                            !.request = send_request(method, BaseUrl, url, data, upload_file, tok.token, headers)]]

Get(t, urls, hdrs) ==
    /\ CanStart(t)
    /\ \E url \in urls, headers \in hdrs :
         send(t, "get", "GET", url, NoneDict, NoneDict, headers)
    /\ started' = started + 1
    /\ UNCHANGED <<authorised, construction, scope, built, phase, token_store, middlewares>>

Post(t, urls, datas, files, hdrs) ==
    /\ CanStart(t)
    /\ \E url \in urls, data \in datas, upload_file \in files, headers \in hdrs :
         IF post_rejects(data, upload_file)
         THEN tasks' = [tasks EXCEPT ![t] = [Idle EXCEPT !.pc = "done", !.op = "post", !.args = Args(url, data, upload_file, headers), !.result = RequestException(400, PostMessage)]]
         ELSE send(t, "post", "POST", url, data, upload_file, headers)
    /\ started' = started + 1
    /\ UNCHANGED <<authorised, construction, scope, built, phase, token_store, middlewares>>

\* variant: put makes the check of post
Put_validating(t, urls, datas, files, hdrs) ==
    /\ CanStart(t)
    /\ \E url \in urls, data \in datas, upload_file \in files, headers \in hdrs :
         IF post_rejects(data, upload_file)
         THEN tasks' = [tasks EXCEPT ![t] = [Idle EXCEPT !.pc = "done", !.op = "put", !.args = Args(url, data, upload_file, headers), !.result = RequestException(400, PostMessage)]]
         ELSE send(t, "put", "PUT", url, data, upload_file, headers)
    /\ started' = started + 1
    /\ UNCHANGED <<authorised, construction, scope, built, phase, token_store, middlewares>>

Put(t, urls, datas, files, hdrs) ==
    /\ CanStart(t)
    /\ \E url \in urls, data \in datas, upload_file \in files, headers \in hdrs :
         send(t, "put", "PUT", url, data, upload_file, headers)
    /\ started' = started + 1
    /\ UNCHANGED <<authorised, construction, scope, built, phase, token_store, middlewares>>

Patch(t, urls, datas, files, hdrs) ==
    /\ CanStart(t)
    /\ \E url \in urls, data \in datas, upload_file \in files, headers \in hdrs :
         send(t, "patch", "PATCH", url, data, upload_file, headers)
    /\ started' = started + 1
    /\ UNCHANGED <<authorised, construction, scope, built, phase, token_store, middlewares>>

Delete(t, urls, hdrs) ==
    /\ CanStart(t)
    /\ \E url \in urls, headers \in hdrs :
         send(t, "delete", "DELETE", url, NoneDict, NoneDict, headers)
    /\ started' = started + 1
    /\ UNCHANGED <<authorised, construction, scope, built, phase, token_store, middlewares>>

\* Client.send called by the caller itself, with a method of its choice
Send(t, methods, urls, datas, files, hdrs) ==
    /\ CanStart(t)
    /\ \E method \in methods, url \in urls, data \in datas, upload_file \in files, headers \in hdrs :
         send(t, "send", method, url, data, upload_file, headers)
    /\ started' = started + 1
    /\ UNCHANGED <<authorised, construction, scope, built, phase, token_store, middlewares>>

\* variant: the store is looked for before the request is built
Authorise_store_checked_first(t, hdrs) ==
    /\ CanStart(t)
    /\ \E headers \in hdrs :
         tasks' = [tasks EXCEPT ![t] =
            IF ~token_store.registered
            THEN [Idle EXCEPT !.pc = "done", !.op = "authorise", !.args = Args(TOKEN_URL, NoneDict, NoneDict, headers), !.result = Raise("LookupError", NoStoreMessage)]
            ELSE [Idle EXCEPT !.pc = "chain", !.op = "authorise", !.args = Args(TOKEN_URL, NoneDict, NoneDict, headers), !.request = authorise_request(TOKEN_URL, headers)]]
    /\ started' = started + 1
    /\ UNCHANGED <<authorised, construction, scope, built, phase, token_store, middlewares>>

\* Client.authorise, lines 210-224, up to the await of middleware_manager.send
Authorise(t, hdrs) ==
    /\ CanStart(t)
    /\ \E headers \in hdrs :
         tasks' = [tasks EXCEPT ![t] = [Idle EXCEPT !.pc = "chain", !.op = "authorise", !.args = Args(TOKEN_URL, NoneDict, NoneDict, headers), !.request = authorise_request(TOKEN_URL, headers)]]
    /\ started' = started + 1
    /\ UNCHANGED <<authorised, construction, scope, built, phase, token_store, middlewares>>

\* variant: the error of the chain is wrapped into a RequestException
await_raised_wrapped(error) == RequestException(500, "Request was unsuccessful: " \o error.exc)

\* Client.send, lines 192-194 (Client.authorise, lines 222-224): the await is
\* in no try block, so what the chain raises leaves the call as it is
await_raised(error) == error

(***************************************************************************)
(* MiddlewareManager.send(request, transport): the stages in registration  *)
(* order, then the transport.  A stage passes the request on, answers it   *)
(* itself, or raises.                                                      *)
(***************************************************************************)
AtStage(t) == tasks[t].pc = "chain" /\ tasks[t].stage < Len(middlewares)

\* the stage the request is at
next_stage(task) == task.stage + 1

invoked(task) == [task EXCEPT !.stage = next_stage(task), !.inbound = Append(@, middlewares[next_stage(task)])]

responded(task, r, by) == [task EXCEPT !.pc = "responded", !.resp = r, !.answered_by = by, !.request = NoRequest, !.args = NoArgs]

StagePass(t) ==
    /\ AtStage(t)
    /\ tasks' = [tasks EXCEPT ![t] = invoked(@)]
    /\ UNCHANGED <<authorised, construction, scope, built, phase, token_store, middlewares, started>>

StageShortCircuit(t, rs) ==
    /\ AtStage(t)
    /\ \E r \in rs : tasks' = [tasks EXCEPT ![t] = responded(invoked(@), r, "stage")]
    /\ UNCHANGED <<authorised, construction, scope, built, phase, token_store, middlewares, started>>

StageRaise(t) ==
    /\ AtStage(t)
    /\ tasks' = [tasks EXCEPT ![t] = [invoked(@) EXCEPT !.pc = "done", !.request = NoRequest, !.raised_at = next_stage(tasks[t]), !.result = await_raised(Raise("MiddlewareError", ""))]]
    /\ UNCHANGED <<authorised, construction, scope, built, phase, token_store, middlewares, started>>

Transport(t, rs) ==
    /\ tasks[t].pc = "chain"
    /\ tasks[t].stage = Len(middlewares)
    /\ \E r \in rs : tasks' = [tasks EXCEPT ![t] = responded([@ EXCEPT !.transport_calls = @ + 1], r, "transport")]
    /\ UNCHANGED <<authorised, construction, scope, built, phase, token_store, middlewares, started>>

(***************************************************************************)
(* CredentialClient: generated endpoint methods.  whoamai and verify_vc    *)
(* validate the body against a schema, revoke_did returns str(resp.json()).*)
(***************************************************************************)
Endpoints == {"whoamai", "revoke_did", "verify_vc"}
WHOAMI_PATH == <<"/", "a", "d", "m", "i", "n", "/", "w", "h", "o", "a", "m", "i", "/">>
REVOKE_PATH == <<"/", "d", "o", "m", "a", "i", "n", "s", "/", "d", "/", "d", "i", "d", "s", "/", "1">>
VERIFY_PATH == <<"/", "v", "e", "r", "i", "f", "y", "/", "v", "c", "/">>
UnexpectedFormat == "The response came back in an unexpected format: "

\* credential_schemas.<Model>.model_validate on a parsed body: whether the
\* body has the shape of the model the endpoint expects
model_validate(endpoint, j) ==
    /\ j.kind = "object"
    /\ \/ endpoint = "whoamai" /\ "email" \in DOMAIN j.value
       \/ endpoint = "verify_vc" /\ "verified" \in DOMAIN j.value

\* credential/client.py, lines 39-46 and 2135-2142 (try model_validate(resp.json()),
\* except pydantic_core.ValidationError), lines 1136-1137 (str(resp.json())):
\* what the method makes of the outcome of its one Client call
endpoint_finish(endpoint, result) ==
    IF result.kind = "raise" THEN result
    ELSE IF json(result.value.text).kind = "invalid" THEN Raise("JSONDecodeError", "")
    ELSE IF endpoint = "revoke_did" THEN Return(result.value)
    ELSE IF model_validate(endpoint, json(result.value.text)) THEN Return(result.value)
    ELSE Raise("EnsureException", UnexpectedFormat \o result.value.text)

\* credential/client.py, lines 30-37: resp = await self.get("/admin/whoami/", params={})
Whoamai(t) ==
    /\ CanStart(t)
    /\ send(t, "whoamai", "GET", WHOAMI_PATH, NoneDict, NoneDict, NoneDict)
    /\ started' = started + 1
    /\ UNCHANGED <<authorised, construction, scope, built, phase, token_store, middlewares>>

\* credential/client.py, lines 1128-1134: resp = await self.delete(path, params=...)
RevokeDid(t) ==
    /\ CanStart(t)
    /\ send(t, "revoke_did", "DELETE", REVOKE_PATH, NoneDict, NoneDict, NoneDict)
    /\ started' = started + 1
    /\ UNCHANGED <<authorised, construction, scope, built, phase, token_store, middlewares>>

\* credential/client.py, lines 2125-2133: resp = await self.post("/verify/vc/",
\* data=<the serialized body>, params={}); the serialized body is a non-empty
\* string, so the check of post lets it through
VerifyVc(t) ==
    /\ CanStart(t)
    /\ LET data == Dict({<<"body", "vc">>})
       IN IF post_rejects(data, NoneDict)
          THEN tasks' = [tasks EXCEPT ![t] = [Idle EXCEPT !.pc = "done", !.op = "verify_vc", !.args = Args(VERIFY_PATH, data, NoneDict, NoneDict), !.result = RequestException(400, PostMessage)]]
          ELSE send(t, "verify_vc", "POST", VERIFY_PATH, data, NoneDict, NoneDict)
    /\ started' = started + 1
    /\ UNCHANGED <<authorised, construction, scope, built, phase, token_store, middlewares>>

\* the code of the endpoint method after its await
EndpointReturn(t) ==
    /\ tasks[t].pc = "done"
    /\ tasks[t].op \in Endpoints
    /\ tasks[t].outcome = NoResult
    /\ tasks' = [tasks EXCEPT ![t] = [@ EXCEPT !.outcome = endpoint_finish(tasks[t].op, tasks[t].result)]]
    /\ UNCHANGED <<authorised, construction, scope, built, phase, token_store, middlewares, started>>

(***************************************************************************)
(* `async with client:` -- Client.__aenter__ and Client.__aexit__          *)
(***************************************************************************)
\* variant: the transport is closed on a normal exit only, and the error of
\* the body is swallowed
Client_aexit_on_success(exc) == [acquired |-> exc, suppress |-> exc]

\* Client.__aexit__, lines 53-59: the inner client's __aexit__ releases the
\* transport whatever exc is, and the method returns None, which tells
\* `async with` not to suppress the exception of the body
Client_aexit(exc) == [acquired |-> FALSE, suppress |-> FALSE]

\* Client.__aenter__, line 50: the inner client's __aenter__ is awaited; it
\* opens its transport and may give the event loop to other tasks, and the
\* line does not say whether the transport is opened before or after that
\* point: both orders are steps
Enter ==
    /\ phase = "ready"
    /\ scope.at = "outside"
    /\ scope.awaiting = "none"
    /\ \E opened_first \in BOOLEAN :
         scope' = [scope EXCEPT !.awaiting = "aenter", !.acquired = opened_first]
    /\ UNCHANGED <<authorised, construction, built, phase, token_store, middlewares, tasks, started>>

\* Client.__aenter__, lines 50-51: the inner __aenter__ has returned, the
\* transport is open in either order; return self, and the body of
\* `async with` begins
EnterReturn ==
    /\ scope.awaiting = "aenter"
    /\ scope' = [scope EXCEPT !.at = "inside", !.awaiting = "none", !.acquired = TRUE]
    /\ UNCHANGED <<authorised, construction, built, phase, token_store, middlewares, tasks, started>>

\* the body of `async with` ends, returning or raising, and Client.__aexit__
\* awaits the inner client's __aexit__ (line 59), which releases the transport
\* and may give the event loop to other tasks, before or after the release:
\* both orders are steps
Exit ==
    /\ scope.at = "inside"
    /\ scope.awaiting = "none"
    /\ \E exc \in BOOLEAN, released_first \in BOOLEAN :
         scope' = [scope EXCEPT !.awaiting = "aexit",
                                !.acquired = IF released_first THEN Client_aexit(exc).acquired ELSE scope.acquired,
                                !.body_raised = exc]
    /\ UNCHANGED <<authorised, construction, built, phase, token_store, middlewares, tasks, started>>

\* Client.__aexit__, line 59: the inner __aexit__ has returned, the transport
\* is released in either order; the method returns None and `async with` is
\* left, with the exception of the body when there is one
ExitReturn ==
    /\ scope.awaiting = "aexit"
    /\ scope' = [scope EXCEPT !.at = "exited", !.awaiting = "none",
                               !.acquired = Client_aexit(scope.body_raised).acquired,
                               !.propagated = scope.body_raised /\ ~Client_aexit(scope.body_raised).suppress]
    /\ UNCHANGED <<authorised, construction, built, phase, token_store, middlewares, tasks, started>>

(***************************************************************************)
(* The code after the await                                                *)
(***************************************************************************)
\* variant: a send answered 401 by the transport goes through the chain once more
SendReturn_retried(t) ==
    /\ tasks[t].pc = "responded"
    /\ tasks[t].op # "authorise"
    /\ tasks' = [tasks EXCEPT ![t] = IF tasks[t].resp.status_code = 401 /\ tasks[t].transport_calls = 1
                                     THEN [@ EXCEPT !.pc = "chain", !.stage = 0, !.inbound = <<>>, !.resp = NoResponse, !.answered_by = "none"]
                                     ELSE [@ EXCEPT !.pc = "done", !.result = send_classify(tasks[t].resp)]]
    /\ UNCHANGED <<authorised, construction, scope, built, phase, token_store, middlewares, started>>

\* variant: a send answered 401 drops the token of the client
SendReturn_clearing(t) ==
    /\ tasks[t].pc = "responded"
    /\ tasks[t].op # "authorise"
    /\ tasks' = [tasks EXCEPT ![t] = [@ EXCEPT !.pc = "done", !.result = send_classify(tasks[t].resp)]]
    /\ token_store' = IF tasks[t].resp.status_code = 401 THEN [token_store EXCEPT !.tokens[CLIENT_ID] = Absent] ELSE token_store
    /\ UNCHANGED <<authorised, construction, scope, built, phase, middlewares, started>>

\* variant: the response is kept on the client, so that a send is finished
\* with the response that arrived last, its own or not
SendReturn_shared(t) ==
    /\ tasks[t].pc = "responded"
    /\ tasks[t].op # "authorise"
    /\ \E u \in Tasks :
         /\ tasks[u].pc = "responded"
         /\ tasks' = [tasks EXCEPT ![t] = [@ EXCEPT !.pc = "done", !.result = send_classify(tasks[u].resp)]]
    /\ UNCHANGED <<authorised, construction, scope, built, phase, token_store, middlewares, started>>

\* Client.send, lines 195-204
SendReturn(t) ==
    /\ tasks[t].pc = "responded"
    /\ tasks[t].op # "authorise"
    /\ tasks' = [tasks EXCEPT ![t] = [@ EXCEPT !.pc = "done", !.result = send_classify(tasks[t].resp)]]
    /\ UNCHANGED <<authorised, construction, scope, built, phase, token_store, middlewares, started>>

\* Client.authorise, lines 225-236
AuthoriseReturn(t) ==
    /\ tasks[t].pc = "responded"
    /\ tasks[t].op = "authorise"
    /\ LET out == authorise_finish(tasks[t].resp, token_store)
       IN /\ tasks' = [tasks EXCEPT ![t] = [@ EXCEPT !.pc = "done", !.before = token_store.tokens, !.result = out.result, !.store_writes = @ + out.writes]]
          /\ token_store' = out.store
          /\ authorised' = IF out.result.kind = "return" THEN Str(getitem(tasks[t].resp.text, "access_token").val.s) ELSE authorised
    /\ UNCHANGED <<construction, scope, built, phase, middlewares, started>>

\* the caller takes the outcome; the task may issue its next call
Collect(t) ==
    /\ tasks[t].pc = "done"
    /\ tasks[t].op \in Endpoints => tasks[t].outcome # NoResult
    /\ tasks' = [tasks EXCEPT ![t] = Idle]
    /\ UNCHANGED <<authorised, construction, scope, built, phase, token_store, middlewares, started>>

Next ==
    \/ Construct(BOOLEAN, MiddlewareInputs)
    \/ \E t \in Tasks : Get(t, Paths, HeaderInputs)
    \/ \E t \in Tasks : Post(t, Paths, DataInputs, FileInputs, HeaderInputs)
    \/ \E t \in Tasks : Put(t, Paths, DataInputs, FileInputs, HeaderInputs)
    \/ \E t \in Tasks : Patch(t, Paths, DataInputs, FileInputs, HeaderInputs)
    \/ \E t \in Tasks : Delete(t, Paths, HeaderInputs)
    \/ \E t \in Tasks : Send(t, Methods, Paths, DataInputs, FileInputs, HeaderInputs)
    \/ \E t \in Tasks : Authorise(t, HeaderInputs)
    \/ \E t \in Tasks : Whoamai(t)
    \/ \E t \in Tasks : RevokeDid(t)
    \/ \E t \in Tasks : VerifyVc(t)
    \/ \E t \in Tasks : EndpointReturn(t)
    \/ \E t \in Tasks : StagePass(t)
    \/ \E t \in Tasks : StageShortCircuit(t, Responses)
    \/ \E t \in Tasks : StageRaise(t)
    \/ \E t \in Tasks : Transport(t, Responses)
    \/ \E t \in Tasks : SendReturn(t)
    \/ \E t \in Tasks : AuthoriseReturn(t)
    \/ \E t \in Tasks : Collect(t)
    \/ Enter
    \/ EnterReturn
    \/ Exit
    \/ ExitReturn

Spec == Init /\ [][Next]_vars

(***************************************************************************)
(* Several caller tasks over one Client, one chain and one TokenStore.     *)
(* The calls are gets and logins with one request shape each; the chain is *)
(* the registry's.                                                         *)
(***************************************************************************)
ConcurrentResponses == {[status_code |-> 200, text |-> B_TOKEN1], [status_code |-> 200, text |-> B_TOKEN2], [status_code |-> 401, text |-> B_DETAIL]}

InitConcurrent ==
    /\ phase = "new"
    /\ token_store = [registered |-> FALSE, tokens |-> EmptyTokens]
    /\ middlewares = <<>>
    /\ tasks = [t \in 1..MaxTasks |-> Idle]
    /\ started = 0
    /\ construction = NotConstructed
    /\ scope = Outside
    /\ built = NoUrl
    /\ authorised = NoneStr

NextConcurrent ==
    \/ Construct({TRUE}, {NoneList})
    \/ \E t \in Tasks : Get(t, {<<"d">>}, {NoneDict})
    \/ \E t \in Tasks : Authorise(t, {NoneDict})
    \/ \E t \in Tasks : StagePass(t)
    \/ \E t \in Tasks : StageShortCircuit(t, ConcurrentResponses)
    \/ \E t \in Tasks : StageRaise(t)
    \/ \E t \in Tasks : Transport(t, ConcurrentResponses)
    \/ \E t \in Tasks : SendReturn(t)
    \/ \E t \in Tasks : AuthoriseReturn(t)
    \/ \E t \in Tasks : Collect(t)

SpecConcurrent == InitConcurrent /\ [][NextConcurrent]_vars

(***************************************************************************)
(* Client.build_url on its own: a constructed client, a base url that      *)
(* Url() accepts and a path of up to MaxPathLen characters                  *)
(***************************************************************************)
BaseUrls == {BaseUrl, BaseUrl \o <<"/">>, BaseUrl \o <<"/", "b">>}
UrlChars == {"/", "d"}
PathInputs == UNION {[1..n -> UrlChars] : n \in 0..MaxPathLen}

InitUrl ==
    /\ phase = "ready"
    /\ token_store = [registered |-> TRUE, tokens |-> EmptyTokens]
    /\ middlewares = MIDDLEWARE
    /\ tasks = [t \in {1} |-> Idle]
    /\ started = 0
    /\ construction = [middleware |-> NoneList, instances |-> [i \in 1..Len(MIDDLEWARE) |-> new_instance(MIDDLEWARE[i])], error |-> ""]
    /\ scope = Outside
    /\ authorised = NoneStr
    /\ \E base \in BaseUrls, path \in PathInputs : built = [base |-> base, path |-> path, result |-> <<>>, applied |-> FALSE]

\* Client.build_url, lines 61-65: reads self._base_url, assigns no attribute
BuildUrl ==
    /\ ~built.applied
    /\ built' = [built EXCEPT !.result = build_url(built.base, built.path), !.applied = TRUE]
    /\ UNCHANGED <<authorised, construction, scope, phase, token_store, middlewares, tasks, started>>

NextUrl == BuildUrl

SpecUrl == InitUrl /\ [][NextUrl]_vars

(***************************************************************************)
(* Properties                                                              *)
(***************************************************************************)
Prefix == "Request was unsuccessful: "

\* task t has finished a send that classified the response resp
Classified(t) == tasks[t].pc = "done" /\ tasks[t].sent /\ tasks[t].resp # NoResponse

\* task t has finished an authorise that got a response from the chain
Answered(t) == tasks[t].pc = "done" /\ tasks[t].op = "authorise" /\ tasks[t].resp # NoResponse

IsRequestException(r, status) == r.kind = "raise" /\ r.exc = "RequestException" /\ r.status_code = status

\* C1: send returns the chain's response as-is exactly when its status is
\* below 300 and raises a RequestException with that status exactly when it is
\* 300 or more.
C1_ReturnsOrRaisesByStatus ==
    \A t \in Tasks : Classified(t) =>
        /\ tasks[t].resp.status_code < 300 <=> tasks[t].result = Return(tasks[t].resp)
        /\ tasks[t].resp.status_code >= 300 <=> IsRequestException(tasks[t].result, tasks[t].resp.status_code)

\* C2, as claimed: for a status of 300 or more and a JSON body with the key
\* detail, send raises a RequestException whose message is the detail value.
C2_MessageEqualsDetail ==
    \A t \in Tasks : Classified(t) /\ tasks[t].resp.status_code >= 300 /\ getitem(tasks[t].resp.text, "detail").ok =>
        /\ IsRequestException(tasks[t].result, tasks[t].resp.status_code)
        /\ tasks[t].result.message = py_str(getitem(tasks[t].resp.text, "detail").val)

\* C2, amended: for a status of 300 or more and a JSON body with the key
\* detail, send raises a RequestException whose message is
\* "Request was unsuccessful: " followed by the detail value as a string.
C2_MessageIsPrefixedDetail ==
    \A t \in Tasks : Classified(t) /\ tasks[t].resp.status_code >= 300 /\ getitem(tasks[t].resp.text, "detail").ok =>
        /\ IsRequestException(tasks[t].result, tasks[t].resp.status_code)
        /\ tasks[t].result.message = Prefix \o py_str(getitem(tasks[t].resp.text, "detail").val)

C2_Witness ==
    \E t \in Tasks : Classified(t) /\ tasks[t].resp = [status_code |-> 401, text |-> B_DETAIL_NUM] /\ tasks[t].result.message = "Request was unsuccessful: 404"

\* C3: for a status of 300 or more and a body that is not JSON, or is JSON
\* without a detail field (a JSON array included), send raises a
\* RequestException and no other error, and its message is the raw response
\* text (taken here with or without the fixed prefix of the message).
C3_FallsBackToText ==
    \A t \in Tasks : Classified(t) /\ tasks[t].resp.status_code >= 300 /\ ~getitem(tasks[t].resp.text, "detail").ok =>
        /\ IsRequestException(tasks[t].result, tasks[t].resp.status_code)
        /\ tasks[t].result.message \in {tasks[t].resp.text, Prefix \o tasks[t].resp.text}

HasHeader(request, name) == \E h \in request.headers : h[1] = name

\* C4: a request that send hands to the chain carries Authorization: Bearer
\* <token> with exactly the token the store holds for the client identifier
\* (and no other Authorization value); when the store holds none, the request
\* has no Authorization header and is dispatched all the same: the send went
\* into the chain and was not refused.
C4_BearerInjection ==
    \A t \in Tasks : tasks[t].sent /\ token_store.registered =>
        /\ tasks[t].pc \in {"chain", "responded", "done"}
        /\ tasks[t].pc = "done" => Len(tasks[t].inbound) + tasks[t].transport_calls > 0
        /\ tasks[t].pc = "chain" =>
              IF token_store.tokens[CLIENT_ID].present
              THEN \A h \in tasks[t].request.headers : h[1] = "Authorization" <=> h = <<"Authorization", "Bearer " \o token_store.tokens[CLIENT_ID].token>>
              ELSE ~HasHeader(tasks[t].request, "Authorization")
        /\ tasks[t].pc = "chain" /\ token_store.tokens[CLIENT_ID].present => HasHeader(tasks[t].request, "Authorization")

C4_Witness ==
    \E t \in Tasks :
        /\ tasks[t].pc = "chain" /\ tasks[t].sent
        /\ token_store.tokens[CLIENT_ID] = [present |-> TRUE, token |-> "tok123", expires |-> 1700000000]
        /\ <<"Authorization", "Bearer tok123">> \in tasks[t].request.headers

\* C5: after authorise got a status 200 whose JSON body carries access_token T
\* and expires_at E, the store of the client holds T with expiry E under the
\* client identifier, whatever it held before.
C5_AuthoriseStoresToken ==
    \A t \in Tasks : Answered(t) /\ token_store.registered /\ tasks[t].resp.status_code = 200
                     /\ getitem(tasks[t].resp.text, "access_token").ok /\ getitem(tasks[t].resp.text, "expires_at").ok =>
        /\ tasks[t].result = Return(NoResponse)
        /\ token_store.tokens[CLIENT_ID] = [present |-> TRUE, token |-> getitem(tasks[t].resp.text, "access_token").val.s, expires |-> getitem(tasks[t].resp.text, "expires_at").val.n]
        /\ get_token(token_store, CLIENT_ID) = Str(getitem(tasks[t].resp.text, "access_token").val.s)

C5_Witness ==
    \E t \in Tasks :
        /\ Answered(t) /\ tasks[t].resp = [status_code |-> 200, text |-> B_TOKEN2]
        /\ tasks[t].before[CLIENT_ID] = [present |-> TRUE, token |-> "tok123", expires |-> 1700000000]
        /\ token_store.tokens[CLIENT_ID] = [present |-> TRUE, token |-> "tok456", expires |-> 1800000000]

\* C6: for a token-endpoint response whose status is not 200, authorise raises
\* a RequestException with that status and a message holding the body text,
\* and the store holds what it held before the call.
C6_AuthoriseFailureKeepsStore ==
    \A t \in Tasks : Answered(t) /\ tasks[t].resp.status_code # 200 =>
        /\ IsRequestException(tasks[t].result, tasks[t].resp.status_code)
        /\ tasks[t].result.message = "Authorization failed: " \o tasks[t].resp.text
        /\ token_store.tokens = tasks[t].before
        /\ tasks[t].store_writes = 0

C6_Witness ==
    \E t \in Tasks :
        /\ Answered(t) /\ tasks[t].resp = [status_code |-> 201, text |-> B_TOKEN2]
        /\ tasks[t].result.exc = "RequestException"
        /\ token_store.tokens[CLIENT_ID] = [present |-> TRUE, token |-> "tok123", expires |-> 1700000000]

\* C7: post with no body and no file raises the RequestException of status 400
\* with no stage of the chain invoked, no transport call, and the store neither
\* read nor written.
C7_PostFailsFast ==
    \A t \in Tasks : tasks[t].op = "post" /\ Falsy(tasks[t].args.data) /\ Falsy(tasks[t].args.upload_file) /\ tasks[t].resp = NoResponse =>
        /\ tasks[t].pc = "done"
        /\ ~tasks[t].sent
        /\ IsRequestException(tasks[t].result, 400)
        /\ tasks[t].inbound = <<>>
        /\ tasks[t].transport_calls = 0
        /\ tasks[t].store_reads = 0
        /\ tasks[t].store_writes = 0

C7_Witness ==
    \E t \in Tasks :
        /\ tasks[t].op = "post" /\ tasks[t].args.data = NoneDict /\ tasks[t].args.upload_file = NoneDict
        /\ tasks[t].result = RequestException(400, PostMessage)
        /\ tasks[t].transport_calls = 0

\* C8: with the stages registered in the order A, B, C and several requests in
\* flight over the one Client, the stages invoked for a request are always the
\* first ones of A, B, C, in that order and once each, and a request that
\* reached the transport went through all three; a request stops short of the
\* transport only where a stage answered it or raised.
C8_StagesInOrder ==
    \A t \in Tasks :
        /\ Len(tasks[t].inbound) <= Len(MIDDLEWARE)
        /\ tasks[t].inbound = SubSeq(MIDDLEWARE, 1, Len(tasks[t].inbound))
        /\ tasks[t].pc = "chain" => Len(tasks[t].inbound) = tasks[t].stage
        /\ tasks[t].transport_calls > 0 => tasks[t].inbound = MIDDLEWARE /\ tasks[t].transport_calls = 1
        /\ tasks[t].pc \in {"responded", "done"} /\ tasks[t].transport_calls = 0 /\ tasks[t].op \in {"get", "authorise"} => tasks[t].inbound # <<>>

C8_Witness ==
    \E t \in Tasks, u \in Tasks :
        /\ t # u
        /\ tasks[t].pc = "chain" /\ tasks[t].inbound = <<"A">>
        /\ tasks[u].pc = "responded" /\ tasks[u].transport_calls = 1 /\ tasks[u].inbound = <<"A", "B", "C">>

\* C9: a send on a Client without a TokenStore raises LookupError, whatever
\* the verb and the path, with no request built, no stage invoked and no
\* transport call.
C9_SendWithoutStore ==
    \A t \in Tasks : tasks[t].sent /\ ~token_store.registered =>
        /\ tasks[t].pc = "done"
        /\ tasks[t].result = Raise("LookupError", NoStoreMessage)
        /\ tasks[t].request = NoRequest
        /\ tasks[t].inbound = <<>>
        /\ tasks[t].transport_calls = 0

C9_Witness ==
    \E t \in Tasks : tasks[t].sent /\ ~token_store.registered /\ tasks[t].op = "patch" /\ tasks[t].result.exc = "LookupError"

\* C10, as claimed: authorise on a Client without a TokenStore raises
\* LookupError whatever the token endpoint answers.
C10_LookupErrorWhateverTheAnswer ==
    \A t \in Tasks : Answered(t) /\ ~token_store.registered => tasks[t].result.exc = "LookupError"

\* C10, amended: authorise on a Client without a TokenStore raises LookupError
\* exactly when the token endpoint answers 200; for any other status it raises
\* the RequestException of that status, as it does with a store.
C10_LookupErrorOn200Only ==
    \A t \in Tasks : Answered(t) /\ ~token_store.registered =>
        /\ tasks[t].resp.status_code = 200 <=> tasks[t].result = Raise("LookupError", NoStoreMessage)
        /\ tasks[t].resp.status_code # 200 => IsRequestException(tasks[t].result, tasks[t].resp.status_code)

C10_Witness ==
    \E t \in Tasks : Answered(t) /\ ~token_store.registered /\ tasks[t].resp.status_code = 200 /\ tasks[t].result.exc = "LookupError"

\* C11: with a token in the store, the headers of the request that send
\* builds are the Authorization header alone, whatever headers the caller
\* passed; with no token they are the headers of the caller (none, when the
\* caller passed None).
C11_HeadersReplaced ==
    \A t \in Tasks : tasks[t].pc = "chain" /\ tasks[t].sent =>
        IF token_store.tokens[CLIENT_ID].present
        THEN tasks[t].request.headers = {<<"Authorization", "Bearer " \o token_store.tokens[CLIENT_ID].token>>}
        ELSE tasks[t].request.headers = (IF tasks[t].args.headers.some THEN tasks[t].args.headers.val ELSE {})

C11_Witness ==
    \E t \in Tasks :
        /\ tasks[t].pc = "chain" /\ tasks[t].sent
        /\ tasks[t].args.headers = Dict({<<"X-Trace", "1">>})
        /\ token_store.tokens[CLIENT_ID].present
        /\ tasks[t].request.headers = {<<"Authorization", "Bearer tok123">>}

\* C12: a send whose response has a status of 300 or more (401 among them)
\* raises the RequestException of that status after one traversal of the
\* chain: every stage invoked at most once, the transport called at most once,
\* and the store not written by the call.
C12_FailsOnceWithoutRefresh ==
    \A t \in Tasks : Classified(t) /\ tasks[t].resp.status_code >= 300 =>
        /\ IsRequestException(tasks[t].result, tasks[t].resp.status_code)
        /\ Len(tasks[t].inbound) <= Len(middlewares)
        /\ tasks[t].transport_calls <= 1
        /\ tasks[t].store_writes = 0

\* the Authorization values a request carries
Bearers(request) == {h[2] : h \in {g \in request.headers : g[1] = "Authorization"}}

\* C13: with sends and authorise calls of several tasks interleaved over one
\* client and one store, the store holds whole entries only (nothing, or the
\* token and expiry of one token response), a request in the chain carries no
\* bearer or the bearer of one whole token, and the bearer a send gives its
\* request is the one of the token the store holds at that step of the send.
C13_BearerNeverTorn ==
    /\ [](/\ token_store.tokens[CLIENT_ID] \in {Absent, [present |-> TRUE, token |-> "tok123", expires |-> 1700000000], [present |-> TRUE, token |-> "tok456", expires |-> 1800000000]}
          /\ \A t \in Tasks : tasks[t].pc = "chain" /\ tasks[t].sent =>
                Bearers(tasks[t].request) \in {{}, {"Bearer tok123"}, {"Bearer tok456"}})
    /\ [][\A t \in Tasks : tasks[t].pc = "idle" /\ tasks'[t].pc = "chain" /\ tasks'[t].sent =>
                Bearers(tasks'[t].request) = IF token_store.tokens[CLIENT_ID].present
                                             THEN {"Bearer " \o token_store.tokens[CLIENT_ID].token}
                                             ELSE {}]_vars

\* a send still in the chain with the old bearer after an authorise of
\* another task replaced the token
C13_Witness ==
    \E t \in Tasks :
        /\ tasks[t].pc = "chain" /\ tasks[t].sent
        /\ Bearers(tasks[t].request) = {"Bearer tok123"}
        /\ token_store.tokens[CLIENT_ID].token = "tok456"

\* C14: when a stage raises during a send, no later stage is invoked and the
\* transport is not called for that request, the send ends with the error of
\* the stage as it was raised (not a RequestException, no response, no second
\* traversal), and the call wrote nothing to the store.
C14_StageErrorPropagates ==
    \A t \in Tasks : tasks[t].sent /\ tasks[t].raised_at > 0 =>
        /\ tasks[t].pc = "done"
        /\ tasks[t].result = Raise("MiddlewareError", "")
        /\ tasks[t].inbound = SubSeq(middlewares, 1, tasks[t].raised_at)
        /\ tasks[t].transport_calls = 0
        /\ tasks[t].resp = NoResponse
        /\ tasks[t].store_writes = 0

\* the first of three stages raised
C14_Witness ==
    \E t \in Tasks :
        /\ tasks[t].sent /\ tasks[t].raised_at = 1 /\ Len(middlewares) = 3
        /\ tasks[t].result.exc = "MiddlewareError"
        /\ token_store.tokens[CLIENT_ID].present

\* C15: a send or authorise call invokes the transport at most once: once
\* when its response came from the transport, which is after every stage
\* passed the request on, and not at all when a stage answered in its place;
\* the response of that stage is then the one the call is finished with
\* (returned by send when its status is below 300, the status of the
\* RequestException otherwise).
C15_OneTransportCall ==
    \A t \in Tasks :
        /\ tasks[t].transport_calls <= 1
        /\ tasks[t].resp # NoResponse =>
              /\ tasks[t].answered_by \in {"stage", "transport"}
              /\ tasks[t].answered_by = "transport" <=> tasks[t].transport_calls = 1
              /\ tasks[t].answered_by = "transport" => tasks[t].inbound = middlewares
              /\ tasks[t].answered_by = "stage" => tasks[t].transport_calls = 0
        /\ tasks[t].pc = "done" /\ tasks[t].sent /\ tasks[t].answered_by = "stage" =>
              /\ tasks[t].resp.status_code < 300 => tasks[t].result = Return(tasks[t].resp)
              /\ tasks[t].resp.status_code >= 300 =>
                    /\ tasks[t].result.kind = "raise"
                    /\ tasks[t].result.exc = "RequestException" => tasks[t].result.status_code = tasks[t].resp.status_code
        /\ tasks[t].pc = "done" /\ tasks[t].op = "authorise" /\ tasks[t].answered_by = "stage" /\ tasks[t].resp.status_code # 200 =>
              IsRequestException(tasks[t].result, tasks[t].resp.status_code)

\* the second of three stages answered a send with 401, the transport not called
C15_Witness ==
    \E t \in Tasks :
        /\ tasks[t].pc = "done" /\ tasks[t].sent /\ tasks[t].answered_by = "stage"
        /\ Len(tasks[t].inbound) = 2 /\ Len(middlewares) = 3
        /\ tasks[t].transport_calls = 0
        /\ IsRequestException(tasks[t].result, 401)

\* C16: while the body of `async with client:` runs the transport resources
\* are acquired; whenever they are acquired the step that leads to their
\* release can be taken (the return of __aenter__, the exit of the block,
\* the return of __aexit__); a suspended __aenter__ or __aexit__ can always
\* return; once the block is left, the body having returned or raised, the
\* resources are released, whichever side of its suspension the inner
\* client released them on; and an exception of the body has then gone on
\* to the caller.
C16_ScopedRelease ==
    /\ scope.at = "inside" /\ scope.awaiting = "none" => scope.acquired
    /\ scope.acquired =>
          \/ scope.at = "outside" /\ scope.awaiting = "aenter"
          \/ scope.at = "inside" /\ scope.awaiting = "none" /\ ENABLED Exit
          \/ scope.at = "inside" /\ scope.awaiting = "aexit"
    /\ scope.awaiting = "aenter" => scope.at = "outside" /\ ENABLED EnterReturn
    /\ scope.awaiting = "aexit" => scope.at = "inside" /\ ENABLED ExitReturn
    /\ scope.at = "exited" => ~scope.acquired /\ scope.awaiting = "none"
    /\ scope.at = "exited" /\ scope.body_raised => scope.propagated
    /\ scope.propagated => scope.body_raised /\ scope.at = "exited"

\* the body raised while a call was in the chain
C16_Witness ==
    /\ scope.at = "exited" /\ scope.body_raised /\ scope.propagated /\ ~scope.acquired
    /\ \E t \in Tasks : tasks[t].pc = "chain"

\* C17: for a path p that does not start with the separator, build_url
\* gives for p what it gives for p with one separator put in front.
C17_BuildUrlIdempotent ==
    built.applied /\ (Len(built.path) = 0 \/ built.path[1] # "/") =>
        built.result = build_url(built.base, <<"/">> \o built.path)

C17_Witness ==
    /\ built.applied /\ built.path = <<"d", "/", "d">>
    /\ built.result = built.base \o <<"/", "d", "/", "d">>

\* C18 as claimed: for every path, build_url returns the base followed by the
\* path with the separators it starts with, none or many, made into one, and
\* changes no state of the client.
C18_SingleLeadingSeparator ==
    built.applied =>
        /\ built.result = built.base \o <<"/">> \o StripSeparators(built.path)
        /\ phase = "ready" /\ middlewares = MIDDLEWARE /\ token_store.tokens = EmptyTokens

\* C18 amended: build_url returns the base followed by the path, with one
\* separator put in front exactly when the path does not start with one; a
\* path that starts with separators keeps all of them; no state of the client
\* changes.
C18_LeadingSeparatorAdded ==
    built.applied =>
        LET q == SubSeq(built.result, Len(built.base) + 1, Len(built.result))
            starts == Len(built.path) > 0 /\ built.path[1] = "/"
        IN /\ SubSeq(built.result, 1, Len(built.base)) = built.base
           /\ Len(q) = Len(built.path) + (IF starts THEN 0 ELSE 1)
           /\ q[1] = "/"
           /\ SubSeq(q, Len(q) - Len(built.path) + 1, Len(q)) = built.path
           /\ phase = "ready" /\ middlewares = MIDDLEWARE /\ token_store.tokens = EmptyTokens
           /\ tasks = [t \in {1} |-> Idle] /\ started = 0 /\ scope = Outside

\* a path that starts with two separators, kept as it is
C18_Witness ==
    /\ built.applied /\ built.path = <<"/", "/", "d">>
    /\ built.result = built.base \o <<"/", "/", "d">>

\* C19: every POST request in the chain, whichever operation of the client
\* built it (post, send called with the method POST, authorise), carries a
\* non-empty body or at least one file.
C19_PostCarriesPayload ==
    \A t \in Tasks : tasks[t].pc = "chain" /\ tasks[t].request.method = "POST" =>
        tasks[t].request.data # {} \/ ~Falsy(tasks[t].request.files)

\* C20: when the middleware list given to Client(...) holds a name the
\* registry lacks, at whatever place in the list, the construction raises the
\* lookup error of the registry and there is no client: no call is ever
\* started on it and its scope is never entered.
C20_UnknownMiddlewareFails ==
    construction.middleware.some /\ (\E i \in 1..Len(construction.middleware.val) : construction.middleware.val[i] \notin Range(MIDDLEWARE)) =>
        /\ phase = "failed"
        /\ construction.error = "KeyError"
        /\ \A t \in Tasks : tasks[t] = Idle
        /\ started = 0
        /\ scope = Outside

\* the unknown name in the middle of the list, after one stage was registered
C20_Witness ==
    /\ construction.middleware = List(<<"C", "Z", "B">>)
    /\ phase = "failed" /\ construction.error = "KeyError"
    /\ middlewares = <<"C">>

\* C21: get_token for an identifier that was never set gives the absent
\* value; after an authorise stored a token under the client identifier,
\* get_token for that identifier gives this token, also when it replaced an
\* earlier one, and the entries of the other identifiers are as before.
C21_TokenStoreContract ==
    /\ ~token_store.tokens[CLIENT_ID].present => get_token(token_store, CLIENT_ID) = NoneStr
    /\ get_token(token_store, OTHER_ID) = NoneStr
    /\ \A t \in Tasks : Answered(t) /\ tasks[t].store_writes = 1 =>
          /\ get_token(token_store, CLIENT_ID) = Str(getitem(tasks[t].resp.text, "access_token").val.s)
          /\ \A i \in Identifiers \ {CLIENT_ID} : token_store.tokens[i] = tasks[t].before[i]

\* the second token written over the first
C21_Witness ==
    \E t \in Tasks :
        /\ Answered(t) /\ tasks[t].store_writes = 1
        /\ tasks[t].before[CLIENT_ID].token = "tok123"
        /\ get_token(token_store, CLIENT_ID) = Str("tok456")
        /\ get_token(token_store, OTHER_ID) = NoneStr

\* C22: the request of an authorise call is a POST to the token url whose
\* body is grant_type=client_credentials with the configured client id and
\* secret; it goes through the stages registered on the client, in their
\* order of registration, as the request of a send does, and to the transport
\* once at most.
C22_AuthorisePostsCredentials ==
    \A t \in Tasks :
        /\ tasks[t].op = "authorise" /\ tasks[t].pc = "chain" =>
              /\ tasks[t].request.method = "POST"
              /\ tasks[t].request.url = TOKEN_URL
              /\ tasks[t].request.data = {<<"grant_type", "client_credentials">>, <<"client_id", "client-1">>, <<"client_secret", "s3cret">>}
        /\ tasks[t].op = "authorise" \/ tasks[t].sent =>
              /\ tasks[t].inbound = SubSeq(middlewares, 1, Len(tasks[t].inbound))
              /\ tasks[t].transport_calls <= 1
              /\ tasks[t].transport_calls = 1 => tasks[t].inbound = middlewares

\* an authorise whose request went through the two stages the caller chose,
\* in the caller's order, and reached the transport
C22_Witness ==
    \E t \in Tasks :
        /\ tasks[t].op = "authorise" /\ tasks[t].pc = "responded"
        /\ middlewares = <<"B", "A">> /\ tasks[t].inbound = <<"B", "A">>
        /\ tasks[t].transport_calls = 1

\* C23: a send started after an authorise returned with token T, with no
\* later authorise having returned, gives its request the header
\* Authorization: Bearer T; a send on a client on which no authorise has
\* returned adds no Authorization header.
C23_SendCarriesLastToken ==
    \A t \in Tasks : tasks[t].pc = "chain" /\ tasks[t].sent =>
        Bearers(tasks[t].request) = IF authorised.some THEN {"Bearer " \o authorised.val} ELSE {}

\* a send in the chain after two authorise calls returned, the second with
\* another token
C23_Witness ==
    \E t \in Tasks :
        /\ tasks[t].pc = "chain" /\ tasks[t].sent
        /\ authorised = Str("tok456")
        /\ started = 3
        /\ Bearers(tasks[t].request) = {"Bearer tok456"}

\* C24: a get, post, put, patch, delete or send call that builds a request
\* reads the store once and writes it never; an authorise call reads it never
\* (its request has no bearer) and writes it once at most, when it returns
\* after a 200; so the store holds for the client what the last returning
\* authorise got, and nothing before one returned.
C24_StoreReadBySendWrittenByAuthorise ==
    /\ \A t \in Tasks :
          /\ tasks[t].sent /\ (tasks[t].pc = "chain" \/ tasks[t].resp # NoResponse \/ tasks[t].raised_at > 0) => tasks[t].store_reads = 1
          /\ tasks[t].sent => tasks[t].store_reads <= 1 /\ tasks[t].store_writes = 0
          /\ tasks[t].op = "authorise" =>
                /\ tasks[t].store_reads = 0
                /\ tasks[t].pc = "chain" => Bearers(tasks[t].request) = {}
                /\ tasks[t].store_writes <= 1
                /\ tasks[t].store_writes = 1 => tasks[t].resp.status_code = 200 /\ tasks[t].result = Return(NoResponse)
    /\ token_store.tokens[CLIENT_ID].present <=> authorised.some
    /\ token_store.tokens[CLIENT_ID].present => token_store.tokens[CLIENT_ID].token = authorised.val

\* a send answered 401 by the transport, the token still in the store
C24_Witness ==
    \E t \in Tasks :
        /\ Classified(t) /\ tasks[t].resp.status_code = 401 /\ tasks[t].transport_calls = 1
        /\ tasks[t].store_reads = 1 /\ tasks[t].store_writes = 0
        /\ token_store.tokens[CLIENT_ID].token = "tok123"

\* C25: a put or patch call goes to send whatever its body and file are, none
\* included: on a client with a store its request is built and enters the
\* chain, it is never ended by the status 400 of post's check, and once every
\* stage has passed it on the transport can take it.
C25_PutPatchNotValidated ==
    \A t \in Tasks : tasks[t].op \in {"put", "patch"} =>
        /\ tasks[t].sent
        /\ token_store.registered =>
              /\ tasks[t].store_reads = 1
              /\ tasks[t].pc = "done" /\ tasks[t].resp = NoResponse => tasks[t].raised_at > 0
        /\ tasks[t].pc = "chain" =>
              /\ tasks[t].request.method = (IF tasks[t].op = "put" THEN "PUT" ELSE "PATCH")
              /\ tasks[t].request.data = (IF tasks[t].args.data.some THEN tasks[t].args.data.val ELSE {})
              /\ tasks[t].request.files = tasks[t].args.upload_file
              /\ tasks[t].stage = Len(middlewares) => ENABLED Transport(t, Responses)

\* a put with no body and no file that every stage passed on to the transport
C25_Witness ==
    \E t \in Tasks :
        /\ tasks[t].op = "put" /\ tasks[t].pc = "chain"
        /\ tasks[t].args.data = NoneDict /\ tasks[t].args.upload_file = NoneDict
        /\ tasks[t].request.data = {} /\ tasks[t].request.files = NoneDict
        /\ Len(middlewares) = 3 /\ tasks[t].stage = 3

\* C26: the chain of a constructed client is the list of names the caller
\* gave, entry by entry and in the caller's order (no stage for an empty list),
\* and the registry's names in the registry's order when no list was given;
\* there is one instance per entry and each holds the transport client of
\* the Client.
C26_ChainAsRequested ==
    phase = "ready" =>
        /\ construction.middleware.some => middlewares = construction.middleware.val
        /\ ~construction.middleware.some => middlewares = <<"A", "B", "C">>
        /\ Len(construction.instances) = Len(middlewares)
        /\ \A i \in 1..Len(middlewares) :
              /\ construction.instances[i].name = middlewares[i]
              /\ construction.instances[i].client = "self._client"

\* the same name twice in the caller's list: two stages
C26_Witness ==
    /\ phase = "ready" /\ construction.middleware = List(<<"A", "A">>)
    /\ middlewares = <<"A", "A">> /\ Len(construction.instances) = 2
    /\ \E t \in Tasks : tasks[t].inbound = <<"A", "A">>

\* C27: with the calls of several tasks in flight over one client, a send
\* returns its own response when the status of that response is below 300 and
\* raises the RequestException of its own response's status and detail
\* otherwise, whatever the other tasks received; and while one call waits in
\* the chain another task can start a call, have its request move on, and
\* finish.
C27_CallsIndependent ==
    /\ \A t \in Tasks : Classified(t) =>
          /\ tasks[t].resp.status_code < 300 => tasks[t].result = Return(tasks[t].resp)
          /\ tasks[t].resp.status_code >= 300 /\ getitem(tasks[t].resp.text, "detail").ok =>
                /\ IsRequestException(tasks[t].result, tasks[t].resp.status_code)
                /\ tasks[t].result.message = Prefix \o py_str(getitem(tasks[t].resp.text, "detail").val)
    /\ \A t \in Tasks, u \in Tasks : t # u /\ tasks[t].pc = "chain" =>
          /\ tasks[u].pc = "idle" /\ phase = "ready" /\ started < MaxCalls => ENABLED Get(u, {<<"d">>}, {NoneDict})
          /\ tasks[u].pc = "chain" => ENABLED (StagePass(u) \/ Transport(u, ConcurrentResponses))
          /\ tasks[u].pc = "responded" /\ tasks[u].op # "authorise" => ENABLED SendReturn(u)

\* two tasks, one whose send returned its 200 and one whose send raised for
\* its 401
C27_Witness ==
    \E t \in Tasks, u \in Tasks :
        /\ t # u
        /\ Classified(t) /\ tasks[t].resp.status_code = 200 /\ tasks[t].result.kind = "return"
        /\ Classified(u) /\ tasks[u].resp.status_code = 401 /\ tasks[u].result.message = "Request was unsuccessful: Not found"

\* C28: when the token endpoint answers 200 with a body that is not JSON, is
\* not a JSON object, or lacks access_token or expires_at, authorise on a
\* client with a store raises and set_token is not called: the store holds
\* the token and the expiry it held before the call.
C28_AuthoriseAllOrNothing ==
    \A t \in Tasks : Answered(t) /\ token_store.registered /\ tasks[t].resp.status_code = 200
                     /\ (~getitem(tasks[t].resp.text, "access_token").ok \/ ~getitem(tasks[t].resp.text, "expires_at").ok) =>
        /\ tasks[t].result.kind = "raise"
        /\ tasks[t].result.exc \in {"KeyError", "TypeError", "JSONDecodeError"}
        /\ tasks[t].store_writes = 0
        /\ token_store.tokens = tasks[t].before

\* a 200 whose body has the token and no expiry, the earlier token kept
C28_Witness ==
    \E t \in Tasks :
        /\ Answered(t) /\ tasks[t].resp = [status_code |-> 200, text |-> B_TOKEN_ONLY]
        /\ tasks[t].result.exc = "KeyError"
        /\ token_store.tokens[CLIENT_ID] = [present |-> TRUE, token |-> "tok123", expires |-> 1700000000]

\* C29 as claimed: when authorise on a client without a store raises the
\* LookupError, its POST has been through every stage of the chain and the
\* transport has been called once.
C29_LookupErrorAfterTransport ==
    \A t \in Tasks : tasks[t].op = "authorise" /\ tasks[t].pc = "done" /\ tasks[t].result.exc = "LookupError" =>
        /\ ~token_store.registered
        /\ tasks[t].inbound = middlewares
        /\ tasks[t].transport_calls = 1

\* C29 amended: when authorise on a client without a store raises the
\* LookupError, its POST has been handed to the chain and answered with
\* status 200: by the transport, called once after every stage passed the
\* request on, or by a stage in its place, the transport then not called.
C29_LookupErrorAfterExchange ==
    \A t \in Tasks : tasks[t].op = "authorise" /\ tasks[t].pc = "done" /\ tasks[t].result.exc = "LookupError" =>
        /\ ~token_store.registered
        /\ tasks[t].resp # NoResponse /\ tasks[t].resp.status_code = 200
        /\ tasks[t].inbound = SubSeq(middlewares, 1, Len(tasks[t].inbound))
        /\ tasks[t].answered_by = "transport" => tasks[t].transport_calls = 1 /\ tasks[t].inbound = middlewares
        /\ tasks[t].answered_by = "stage" => tasks[t].transport_calls = 0 /\ tasks[t].inbound # <<>>
        /\ tasks[t].answered_by \in {"stage", "transport"}

\* the LookupError after the transport answered 200
C29_Witness ==
    \E t \in Tasks :
        /\ tasks[t].op = "authorise" /\ tasks[t].pc = "done" /\ tasks[t].result = Raise("LookupError", NoStoreMessage)
        /\ tasks[t].resp = [status_code |-> 200, text |-> B_TOKEN1]
        /\ tasks[t].transport_calls = 1 /\ Len(tasks[t].inbound) = 3

\* C30: a generated endpoint method makes one call of get, post, put, patch or
\* delete; what that call raises for a status of 300 or more is what the
\* method raises; and for a response with a status below 300 whose body has
\* not the shape the method expects (it is no JSON, or, where the method
\* expects a model, no object with the fields of the model) the method raises
\* EnsureException and returns no value.
C30_EndpointsValidate ==
    \A t \in Tasks : tasks[t].op \in Endpoints /\ tasks[t].outcome # NoResult =>
        /\ tasks[t].store_reads <= 1 /\ tasks[t].transport_calls <= 1
        /\ tasks[t].result.kind = "raise" => tasks[t].outcome = tasks[t].result
        /\ tasks[t].result.kind = "return" /\ (\/ json(tasks[t].resp.text).kind = "invalid"
                                               \/ tasks[t].op # "revoke_did" /\ ~model_validate(tasks[t].op, json(tasks[t].resp.text))) =>
              tasks[t].outcome.exc = "EnsureException"

====
